---- MODULE Spec2Model ----
(***************************************************************************)
(* A model of imagen/dataviews.py: the DataView container (one snapshot),  *)
(* the IndexedView container (parallel lists _index_labels / _data kept    *)
(* with the bisect module when indexed_ascending), and the Cartesian2D /   *)
(* Cartesian2Dx specialisations that supply _coords2matrixidx.             *)
(*                                                                         *)
(* Python values are modelled as follows.                                  *)
(*  - An array (a snapshot) is a sequence of rows, each a sequence of      *)
(*    integers; its shape is (number of rows, length of a row).            *)
(*  - An object reference is a record: [obj |-> o] refers to the caller's  *)
(*    array object o (whose contents heap[o] the caller may change),       *)
(*    [obj |-> None] is the reference to None, and [copy |-> a] is the     *)
(*    object made by data.copy(), which only the container refers to.      *)
(*  - The outcome of a call is [kind |-> "return", val |-> v] or           *)
(*    [kind |-> "raise", exc |-> name of the exception class].             *)
(* The semantics is that of Python 3: a function taken from another class  *)
(* is a plain function, None is not ordered against numbers, and the       *)
(* variable of a comprehension is local to it.                             *)
(***************************************************************************)
EXTENDS Integers, Sequences, FiniteSets, TLC

VARIABLES
    cls,                \* the class of the container under study
    indexed_ascending,  \* IndexedView.indexed_ascending (fixed at construction)
    map_type,           \* IndexedView.map_type: "OrderedDict" or "list"
    bounds,             \* DataView.bounds, as the tuple lbrt() gives
    _data,              \* DataView._data (a reference) / IndexedView._data (a list)
    _index_labels,      \* IndexedView._index_labels
    heap,               \* contents of the caller's array objects
    recorded,           \* history: <<index_value, contents>> of each record call
                        \* that returned (for a DataView: <<object, contents>>)
    ret                 \* the last call made on the container and its outcome

vars == <<cls, indexed_ascending, map_type, bounds, _data, _index_labels,
          heap, recorded, ret>>

conf == <<cls, indexed_ascending, map_type, bounds>>

(***************************************************************************)
(* Bounds of the model.                                                    *)
(***************************************************************************)
MaxRecords == 3     \* record calls made on one container
MaxKey == 2         \* index values are 1..MaxKey
NumObjs == 1        \* array objects the caller holds

Keys == 1..MaxKey
Objs == 1..NumObjs

None == -1

\* Whether "from collections import OrderedDict" succeeds (it does from
\* Python 2.7 on); the module sets OrderedDict to None when it does not.
OrderedDictImported == TRUE

\* The arrays the caller's objects may hold: a 2x2 and a 1x1 matrix.
Arrays == { << <<1, 2>>, <<3, 4>> >>, << <<9>> >> }

\* The sheet coordinates <<x, y>> sample is called with: the top left corner,
\* the centre, and a point of the right edge of bounds.
Coords == {<<0, 2>>, <<1, 1>>, <<2, 1>>}

DataViewClasses == {"DataView", "Cartesian2D"}
IndexedClasses == {"Cartesian2Dx"}

(***************************************************************************)
(* Object references and call outcomes.                                    *)
(***************************************************************************)
IsCopy(r) == "copy" \in DOMAIN r

\* The contents of the array r refers to.
Value(r) == IF IsCopy(r) THEN r.copy ELSE heap[r.obj]

\* The same, in a given heap.
ValueIn(h, r) == IF IsCopy(r) THEN r.copy ELSE h[r.obj]

\* data.copy(): a new array object with the contents data has now.
AliasCopy(r) == r
Copy(r) == [copy |-> Value(r)]

Return(v) == [kind |-> "return", val |-> v]
Raise(e) == [kind |-> "raise", exc |-> e]
\* A call: its name, the tuple of its arguments, its outcome.
Call(op, arg, out) == [op |-> op, arg |-> arg, out |-> out]

(***************************************************************************)
(* The list operations the code uses.                                      *)
(***************************************************************************)
\* bisect.bisect_left(a, x): lo, hi are 0-based as in Python.
RECURSIVE BisectLoop(_, _, _, _)
BisectLoop(a, x, lo, hi) ==
    IF lo < hi
    THEN LET mid == (lo + hi) \div 2
         IN  IF a[mid + 1] < x
             THEN BisectLoop(a, x, mid + 1, hi)
             ELSE BisectLoop(a, x, lo, mid)
    ELSE lo

RECURSIVE BisectRightLoop(_, _, _, _)
BisectRightLoop(a, x, lo, hi) ==
    IF lo < hi
    THEN LET mid == (lo + hi) \div 2
         IN  IF x < a[mid + 1]
             THEN BisectRightLoop(a, x, lo, mid)
             ELSE BisectRightLoop(a, x, mid + 1, hi)
    ELSE lo

bisect_right(a, x) == BisectRightLoop(a, x, 0, Len(a))
bisect_left(a, x) == BisectLoop(a, x, 0, Len(a))

\* list.insert(i, v) for 0 <= i <= len(list).
ListInsert(s, i, v) == SubSeq(s, 1, i) \o <<v>> \o SubSeq(s, i + 1, Len(s))

\* zip(xs, ys) as a list of pairs.
Zip(xs, ys) ==
    [i \in 1..(IF Len(xs) < Len(ys) THEN Len(xs) ELSE Len(ys)) |-> <<xs[i], ys[i]>>]

(***************************************************************************)
(* Construction.                                                           *)
(***************************************************************************)
Init ==
    /\ cls \in DataViewClasses \cup IndexedClasses
    /\ indexed_ascending \in (IF cls \in IndexedClasses THEN BOOLEAN ELSE {TRUE})
    /\ map_type = (IF OrderedDictImported THEN "OrderedDict" ELSE "list")
    /\ bounds = <<0, 0, 2, 2>>
    /\ _data = (IF cls \in IndexedClasses THEN <<>> ELSE [obj |-> None])
    /\ _index_labels = <<>>
    /\ heap \in [Objs -> Arrays]
    /\ recorded = <<>>
    /\ ret = Call("__init__", <<>>, Return(None))

(***************************************************************************)
(* The caller changes the contents of one of its arrays in place.          *)
(***************************************************************************)
Mutate(o, a) ==
    /\ heap[o] # a
    /\ heap' = [heap EXCEPT ![o] = a]
    /\ UNCHANGED <<conf, _data, _index_labels, recorded, ret>>

(***************************************************************************)
(* DataView.record(data)                                                   *)
(***************************************************************************)
DataViewRecordCopy(o) ==
    /\ cls \in DataViewClasses
    /\ Len(recorded) < MaxRecords
    /\ _data' = Copy([obj |-> o])
    /\ recorded' = Append(recorded, <<o, heap[o]>>)
    /\ ret' = Call("record", <<o>>, Return(None))
    /\ UNCHANGED <<conf, _index_labels, heap>>

DataViewRecord(o) ==
    /\ cls \in DataViewClasses
    /\ Len(recorded) < MaxRecords
    /\ _data' = [obj |-> o]
    /\ recorded' = Append(recorded, <<o, heap[o]>>)
    /\ ret' = Call("record", <<o>>, Return(None))
    /\ UNCHANGED <<conf, _index_labels, heap>>

(***************************************************************************)
(* IndexedView.record(data, index_value)                                   *)
(*                                                                         *)
(* Two calls fail.  data.copy() raises AttributeError when data is None,   *)
(* which has no method copy.  bisect_left raises TypeError at its first    *)
(* comparison of index_value with a stored index value when the two are    *)
(* not ordered against each other: here index_value = None against the     *)
(* stored numbers.  Such an index value is given only to the calls that    *)
(* compare it (ascending mode, container not empty), so that the stored    *)
(* index values are numbers throughout.                                    *)
(***************************************************************************)
\* The data and index_value arguments of record.
DataArgs == {[obj |-> o] : o \in Objs \cup {None}}
KeyArgs == Keys \cup {None}

\* data.copy()
CopyOutcome(data) ==
    IF data.obj = None THEN Raise("AttributeError") ELSE Return(Copy(data))

\* Whether every comparison a[mid] < x of bisect_left(a, x) is between values
\* ordered against each other.
RECURSIVE BisectComparable(_, _, _, _)
BisectComparable(a, x, lo, hi) ==
    IF lo < hi
    THEN LET mid == (lo + hi) \div 2
         IN  /\ a[mid + 1] # None
             /\ x # None
             /\ IF a[mid + 1] < x
                THEN BisectComparable(a, x, mid + 1, hi)
                ELSE BisectComparable(a, x, lo, mid)
    ELSE TRUE

BisectLeftOutcome(a, x) ==
    IF BisectComparable(a, x, 0, Len(a)) THEN Return(bisect_left(a, x))
                                         ELSE Raise("TypeError")

\* _bisect_insert: the new _data, the new _index_labels, and the outcome.
BisectInsertAppend(data, index_value) ==
    LET insert_index == BisectLeftOutcome(_index_labels, index_value)
        copied == CopyOutcome(data)
    IN  IF insert_index.kind = "raise" THEN <<_data, _index_labels, insert_index>>
        ELSE IF copied.kind = "raise" THEN <<_data, _index_labels, copied>>
        ELSE <<Append(_data, copied.val), Append(_index_labels, index_value),
               Return(None)>>

BisectInsertSkewed(data, index_value) ==
    LET insert_index == BisectLeftOutcome(_index_labels, index_value)
        copied == CopyOutcome(data)
    IN  IF insert_index.kind = "raise" THEN <<_data, _index_labels, insert_index>>
        ELSE IF copied.kind = "raise" THEN <<_data, _index_labels, copied>>
        ELSE <<Append(_data, copied.val),
               ListInsert(_index_labels, insert_index.val, index_value),
               Return(None)>>

BisectInsertRight(data, index_value) ==
    LET insert_index == BisectLeftOutcome(_index_labels, index_value)
        copied == CopyOutcome(data)
    IN  IF insert_index.kind = "raise" THEN <<_data, _index_labels, insert_index>>
        ELSE IF copied.kind = "raise" THEN <<_data, _index_labels, copied>>
        ELSE LET i == bisect_right(_index_labels, index_value)
             IN  <<ListInsert(_data, i, copied.val),
                   ListInsert(_index_labels, i, index_value),
                   Return(None)>>

BisectInsertLabelFirst(data, index_value) ==
    LET insert_index == BisectLeftOutcome(_index_labels, index_value)
        copied == CopyOutcome(data)
    IN  IF insert_index.kind = "raise" THEN <<_data, _index_labels, insert_index>>
        ELSE IF copied.kind = "raise"
        THEN <<_data, ListInsert(_index_labels, insert_index.val, index_value), copied>>
        ELSE <<ListInsert(_data, insert_index.val, copied.val),
               ListInsert(_index_labels, insert_index.val, index_value),
               Return(None)>>

\* The statements run in order: bisect_left, data.copy(), the two inserts;
\* one that raises ends the call.
_bisect_insert(data, index_value) ==
    LET insert_index == BisectLeftOutcome(_index_labels, index_value)
        copied == CopyOutcome(data)
    IN  IF insert_index.kind = "raise" THEN <<_data, _index_labels, insert_index>>
        ELSE IF copied.kind = "raise" THEN <<_data, _index_labels, copied>>
        ELSE <<ListInsert(_data, insert_index.val, copied.val),
               ListInsert(_index_labels, insert_index.val, index_value),
               Return(None)>>

\* The branch for indexed_ascending = False: append the copy, then the
\* index value.
RecordAppendFront(data, index_value) ==
    LET copied == CopyOutcome(data)
    IN  IF copied.kind = "raise" THEN <<_data, _index_labels, copied>>
        ELSE <<<<copied.val>> \o _data, <<index_value>> \o _index_labels,
               Return(None)>>

RecordAppend(data, index_value) ==
    LET copied == CopyOutcome(data)
    IN  IF copied.kind = "raise" THEN <<_data, _index_labels, copied>>
        ELSE <<Append(_data, copied.val), Append(_index_labels, index_value),
               Return(None)>>

Record(data, index_value) ==
    /\ cls \in IndexedClasses
    /\ Len(recorded) < MaxRecords
    /\ index_value = None => (indexed_ascending /\ Len(_index_labels) > 0)
    /\ LET r == IF indexed_ascending THEN _bisect_insert(data, index_value)
                                     ELSE RecordAppend(data, index_value)
       IN  /\ _data' = r[1]
           /\ _index_labels' = r[2]
           /\ recorded' = IF r[3].kind = "return"
                          THEN Append(recorded, <<index_value, Value(data)>>)
                          ELSE recorded
           /\ ret' = Call("record", <<index_value>>, r[3])
    /\ UNCHANGED <<conf, heap>>

(***************************************************************************)
(* IndexedView.__getitem__ with a key that is not a slice                  *)
(***************************************************************************)
\* list.index(x): the 0-based position of the first x, or ValueError.
ListIndex(s, x) ==
    IF \E i \in 1..Len(s) : s[i] = x
    THEN Return((CHOOSE i \in 1..Len(s) : s[i] = x /\ \A j \in 1..(i - 1) : s[j] # x) - 1)
    ELSE Raise("ValueError")

BisectIndexRight(index_value) ==
    LET i == bisect_right(_index_labels, index_value) - 1
    IN  IF i >= 0 /\ _index_labels[i + 1] = index_value
        THEN Return(i)
        ELSE Raise("ValueError")

BisectIndexPastMatch(index_value) ==
    LET i == bisect_right(_index_labels, index_value)
    IN  IF i # Len(_index_labels) /\ _index_labels[i + 1] = index_value
        THEN Return(i)
        ELSE Raise("ValueError")

_bisect_index(index_value) ==
    LET i == bisect_left(_index_labels, index_value)
    IN  IF i # Len(_index_labels) /\ _index_labels[i + 1] = index_value
        THEN Return(i)
        ELSE Raise("ValueError")

GetItemOrNone(indexslice) ==
    LET matched_index == IF indexed_ascending THEN _bisect_index(indexslice)
                                              ELSE ListIndex(_index_labels, indexslice)
    IN  IF matched_index.kind = "raise"
        THEN Return([obj |-> None])
        ELSE Return(_data[matched_index.val + 1])

GetItem(indexslice) ==
    LET matched_index == IF indexed_ascending THEN _bisect_index(indexslice)
                                              ELSE ListIndex(_index_labels, indexslice)
    IN  IF matched_index.kind = "raise"
        THEN matched_index
        ELSE Return(_data[matched_index.val + 1])

Lookup(k) ==
    /\ cls \in IndexedClasses
    /\ ret' = Call("getitem", <<k>>, GetItem(k))
    /\ UNCHANGED <<conf, _data, _index_labels, heap, recorded>>

(***************************************************************************)
(* IndexedView.__getitem__ with a slice                                    *)
(***************************************************************************)
\* The slice bounds and strides the model calls __getitem__ with.
SliceBounds == {None, 1, 2, 3}
Steps == {None}

\* list[slice(i, j, step)] for i, j >= 0 or None and step > 0 or None.
ListSlice(s, i, j, step) ==
    LET lo == IF i = None THEN 0 ELSE IF i > Len(s) THEN Len(s) ELSE i
        hi == IF j = None THEN Len(s) ELSE IF j > Len(s) THEN Len(s) ELSE j
        st == IF step = None THEN 1 ELSE step
        n  == IF hi <= lo THEN 0 ELSE (hi - lo + st - 1) \div st
    IN  [m \in 1..n |-> s[lo + (m - 1) * st + 1]]

\* d[k] = v on an OrderedDict, held as the list of its items in order.
DictSet(d, k, v) ==
    IF \E i \in 1..Len(d) : d[i][1] = k
    THEN [i \in 1..Len(d) |-> IF d[i][1] = k THEN <<k, v>> ELSE d[i]]
    ELSE Append(d, <<k, v>>)

RECURSIVE DictUpdate(_, _)
DictUpdate(d, pairs) ==
    IF Len(pairs) = 0
    THEN d
    ELSE DictUpdate(DictSet(d, pairs[1][1], pairs[1][2]), Tail(pairs))

\* self.map_type(pairs): OrderedDict(pairs) or list(pairs).
MapType(pairs) ==
    IF map_type = "OrderedDict" THEN DictUpdate(<<>>, pairs) ELSE pairs

BisectSliceClosed(start, stop, step) ==
    LET start_ind == IF start = None THEN None ELSE bisect_left(_index_labels, start)
        stop_ind  == IF stop = None THEN None ELSE bisect_right(_index_labels, stop)
    IN  MapType(Zip(ListSlice(_index_labels, start_ind, stop_ind, step),
                    ListSlice(_data, start_ind, stop_ind, step)))

_bisect_slice(start, stop, step) ==
    LET start_ind == IF start = None THEN None ELSE bisect_left(_index_labels, start)
        stop_ind  == IF stop = None THEN None ELSE bisect_left(_index_labels, stop)
    IN  MapType(Zip(ListSlice(_index_labels, start_ind, stop_ind, step),
                    ListSlice(_data, start_ind, stop_ind, step)))

\* The branch for indexed_ascending = False.  The comparison start < stop
\* raises TypeError when either is None; the condition of the comprehension
\* reads the name l, which nothing binds, so that its first evaluation (there
\* is one when the container holds an entry) raises NameError.
UnorderedSlice(start, stop) ==
    IF start = None \/ stop = None
    THEN Raise("TypeError")
    ELSE LET min_val == IF start < stop THEN start ELSE stop
             max_val == IF start < stop THEN stop ELSE start
             pairs   == Zip(_index_labels, _data)
         IN  IF Len(pairs) > 0
             THEN Raise("NameError")
             ELSE Return(MapType(<<>>))

GetSlice(start, stop, step) ==
    IF indexed_ascending
    THEN Return(_bisect_slice(start, stop, step))
    ELSE UnorderedSlice(start, stop)

Slice(start, stop, step) ==
    /\ cls \in IndexedClasses
    /\ ret' = Call("getslice", <<start, stop, step>>, GetSlice(start, stop, step))
    /\ UNCHANGED <<conf, _data, _index_labels, heap, recorded>>

(***************************************************************************)
(* _coords2matrixidx and sample                                            *)
(***************************************************************************)
Shape(arr) == <<Len(arr), Len(arr[1])>>

\* SheetCoordinateSystem(bounds, xdensity, ydensity).sheet2matrixidx(x, y):
\* the row counts down from the top edge and the column up from the left
\* edge, each the floor of the distance times the density.  A density is
\* the fraction <<numerator, denominator>>.
sheet2matrixidx(lbrt, xdensity, ydensity, x, y) ==
    <<((lbrt[4] - y) * ydensity[1]) \div ydensity[2],
      ((x - lbrt[1]) * xdensity[1]) \div xdensity[2]>>

Cartesian2D_coords2matrixidx(coords, arr) ==
    LET l == bounds[1]
        b == bounds[2]
        r == bounds[3]
        t == bounds[4]
        dim1 == Shape(arr)[1]
        dim2 == Shape(arr)[2]
        xdensity == <<dim1, r - l>>
        ydensity == <<dim2, t - b>>
    IN  sheet2matrixidx(bounds, xdensity, ydensity, coords[1], coords[2])

\* self._coords2matrixidx(coords, data): Cartesian2Dx takes the function of
\* Cartesian2D; the base class DataView defines the hook with the one
\* parameter coords, so a call with two arguments fails.
Coords2MatrixIdx(coords, arr) ==
    IF cls \in {"Cartesian2D", "Cartesian2Dx"}
    THEN Return(Cartesian2D_coords2matrixidx(coords, arr))
    ELSE Raise("TypeError")

\* arr[(row, col)] on an array: an index i of a dimension of size n is valid
\* for -n <= i < n, a negative one counting from the end.
ArrayGet(arr, idx) ==
    LET dims == Shape(arr)
        ok(i, n) == -n <= i /\ i < n
        pos(i, n) == IF i < 0 THEN i + n ELSE i
    IN  IF ok(idx[1], dims[1]) /\ ok(idx[2], dims[2])
        THEN Return(arr[pos(idx[1], dims[1]) + 1][pos(idx[2], dims[2]) + 1])
        ELSE Raise("IndexError")

\* data[self._coords2matrixidx(coords, data)] for one snapshot.
SampleOne(coords, arr) ==
    LET idx == Coords2MatrixIdx(coords, arr)
    IN  IF idx.kind = "raise" THEN idx ELSE ArrayGet(arr, idx.val)

\* DataView.sample: the body reads the name data, which nothing binds, before
\* it does anything else.
DataViewSample(coords) == Raise("NameError")

IndexedSampleFirst(coords) ==
    IF Len(_data) = 0 THEN Return(<<>>)
    ELSE LET one == SampleOne(coords, Value(_data[1]))
         IN  IF one.kind = "raise" THEN one ELSE Return(<<one.val>>)

IndexedSample(coords) ==
    LET one(i) == SampleOne(coords, Value(_data[i]))
        failed == {i \in 1..Len(_data) : one(i).kind = "raise"}
    IN  IF failed # {}
        THEN one(CHOOSE i \in failed : \A j \in failed : i <= j)
        ELSE Return([i \in 1..Len(_data) |-> one(i).val])

Sample(coords) ==
    /\ ret' = Call("sample", coords,
                   IF cls \in IndexedClasses THEN IndexedSample(coords)
                                             ELSE DataViewSample(coords))
    /\ UNCHANGED <<conf, _data, _index_labels, heap, recorded>>

(***************************************************************************)
(* view and __len__                                                        *)
(***************************************************************************)
DataViewView == Return(<<_data, bounds>>)

IndexedViewOrNone ==
    IF Len(_data) = 0 THEN Return(<<[obj |-> None], bounds>>)
                      ELSE Return(<<_data[Len(_data)], bounds>>)

IndexedViewFirst ==
    IF Len(_data) = 0 THEN Raise("IndexError") ELSE Return(<<_data[1], bounds>>)

IndexedViewView ==
    IF Len(_data) = 0 THEN Raise("IndexError") ELSE Return(<<_data[Len(_data)], bounds>>)

ViewPop ==
    /\ ret' = Call("view", <<>>,
                   IF cls \in IndexedClasses THEN IndexedViewView ELSE DataViewView)
    /\ _data' = IF cls \in IndexedClasses /\ Len(_data) > 0
                THEN SubSeq(_data, 1, Len(_data) - 1)
                ELSE _data
    /\ UNCHANGED <<conf, _index_labels, heap, recorded>>

View ==
    /\ ret' = Call("view", <<>>,
                   IF cls \in IndexedClasses THEN IndexedViewView ELSE DataViewView)
    /\ UNCHANGED <<conf, _data, _index_labels, heap, recorded>>

IndexedLenNoAttribute == Return(1)

IndexedLen == Return(Len(_index_labels))

LenCall ==
    /\ cls \in IndexedClasses
    /\ ret' = Call("len", <<>>, IndexedLen)
    /\ UNCHANGED <<conf, _data, _index_labels, heap, recorded>>

Next ==
    \/ \E o \in Objs, a \in Arrays : Mutate(o, a)
    \/ \E o \in Objs : DataViewRecord(o)
    \/ \E data \in DataArgs, k \in KeyArgs : Record(data, k)
    \/ \E k \in Keys : Lookup(k)
    \/ \E start \in SliceBounds, stop \in SliceBounds, step \in Steps :
          Slice(start, stop, step)
    \/ \E coords \in Coords : Sample(coords)
    \/ View
    \/ LenCall

Spec == Init /\ [][Next]_vars

(***************************************************************************)
(* Notions the properties below are stated with.                           *)
(***************************************************************************)
IsIndexed == cls \in IndexedClasses
Ascending == IsIndexed /\ indexed_ascending
Unordered == IsIndexed /\ ~indexed_ascending

\* The stored <<index value, contents>> pairs, position by position.
StoredPairs == [i \in 1..Len(_data) |-> <<_index_labels[i], Value(_data[i])>>]

\* How many times p occurs in the sequence s.
Count(s, p) == Cardinality({i \in 1..Len(s) : s[i] = p})

\* The positions of the stored entries with index value k.
PositionsOf(k) == {i \in 1..Len(_index_labels) : _index_labels[i] = k}

\* The record calls made with index value k, in the order they were made.
RecordsOf(k) == {j \in 1..Len(recorded) : recorded[j][1] = k}

Min(S) == CHOOSE i \in S : \A j \in S : i <= j
Max(S) == CHOOSE i \in S : \A j \in S : i >= j

(***************************************************************************)
(* C1.  In ascending mode _index_labels is in non-decreasing order after    *)
(* every record call, whatever the index values and their order.           *)
(***************************************************************************)
C1_LabelsSorted ==
    Ascending =>
        \A i \in 1..(Len(_index_labels) - 1) : _index_labels[i] <= _index_labels[i + 1]

\* A record call has put an index value in front of a larger one recorded before.
C1_Witness ==
    /\ Ascending
    /\ ret.op = "record"
    /\ Len(recorded) >= 2
    /\ recorded[Len(recorded)][1] < recorded[1][1]
    /\ _index_labels[1] = recorded[Len(recorded)][1]

(***************************************************************************)
(* C2.  In both modes _data and _index_labels have the same length, and    *)
(* the stored <<index value, contents>> pairs are a permutation of the     *)
(* recorded ones: every pair is stored as often as it was recorded.        *)
(***************************************************************************)
C2_PairsArePermutation ==
    IsIndexed =>
        /\ Len(_data) = Len(_index_labels)
        /\ Len(_data) = Len(recorded)
        /\ \A k \in Keys, a \in Arrays :
               Count(StoredPairs, <<k, a>>) = Count(recorded, <<k, a>>)

\* Two entries with the same index value and different contents are stored,
\* after an insertion in front of an entry recorded earlier.
C2_Witness ==
    /\ Ascending
    /\ \E i, j \in 1..Len(_data) :
           /\ i < j
           /\ _index_labels[i] = _index_labels[j]
           /\ Value(_data[i]) # Value(_data[j])
    /\ \E i \in 1..Len(recorded) : recorded[i] # StoredPairs[i]

(***************************************************************************)
(* C3.  In ascending mode a point lookup of an index value that was        *)
(* recorded returns the leftmost stored entry with that index value, whose *)
(* contents are those of the latest record call made with it.              *)
(***************************************************************************)
C3_PointLookupLeftmost ==
    (Ascending /\ ret.op = "getitem" /\ RecordsOf(ret.arg[1]) # {}) =>
        /\ ret.out.kind = "return"
        /\ ret.out.val = _data[Min(PositionsOf(ret.arg[1]))]
        /\ Value(ret.out.val) = recorded[Max(RecordsOf(ret.arg[1]))][2]

\* The lookup chose among two stored entries with the same index value and
\* different contents.
C3_Witness ==
    /\ Ascending
    /\ ret.op = "getitem"
    /\ ret.out.kind = "return"
    /\ \E i \in PositionsOf(ret.arg[1]) :
           Value(_data[i]) # Value(ret.out.val)

(***************************************************************************)
(* C4.  As claimed: in ascending mode the slice [a:b] without a step       *)
(* returns exactly the stored entries with a <= key < b, in ascending key  *)
(* order, None standing for no bound on its side.                          *)
(***************************************************************************)
InRange(k, a, b) == (a = None \/ a <= k) /\ (b = None \/ k < b)

EntriesInRange(a, b) ==
    SelectSeq(Zip(_index_labels, _data), LAMBDA p : InRange(p[1], a, b))

C4_SliceReturnsEveryEntry ==
    (Ascending /\ ret.op = "getslice" /\ ret.arg[3] = None) =>
        /\ ret.out.kind = "return"
        /\ ret.out.val = EntriesInRange(ret.arg[1], ret.arg[2])

(***************************************************************************)
(* C4, amended.  In ascending mode the slice [a:b] without a step returns  *)
(* an ordered mapping whose keys are exactly the distinct stored index     *)
(* values k with a <= k < b, in ascending order; each key is mapped to the *)
(* snapshot of the last stored entry with that key, so that stored entries *)
(* with equal keys give one item; with pairwise distinct keys in range the *)
(* items are exactly the entries.                                          *)
(***************************************************************************)
C4_SliceHalfOpenMapping ==
    (Ascending /\ ret.op = "getslice" /\ ret.arg[3] = None) =>
        /\ ret.out.kind = "return"
        /\ LET m == ret.out.val
               a == ret.arg[1]
               b == ret.arg[2]
           IN  /\ \A i \in 1..(Len(m) - 1) : m[i][1] < m[i + 1][1]
               /\ {m[i][1] : i \in 1..Len(m)} =
                      {k \in Keys : PositionsOf(k) # {} /\ InRange(k, a, b)}
               /\ \A i \in 1..Len(m) : m[i][2] = _data[Max(PositionsOf(m[i][1]))]
               /\ (\A k \in Keys : InRange(k, a, b) => Cardinality(PositionsOf(k)) <= 1)
                      => m = EntriesInRange(a, b)

\* A slice [a:b] left out a stored entry with key b and merged two stored
\* entries with one key and different contents into one item.
C4_Witness ==
    /\ Ascending
    /\ ret.op = "getslice"
    /\ ret.arg[1] # None /\ ret.arg[2] # None /\ ret.arg[3] = None
    /\ PositionsOf(ret.arg[2]) # {}
    /\ Len(ret.out.val) = 1
    /\ \E i, j \in PositionsOf(ret.out.val[1][1]) : Value(_data[i]) # Value(_data[j])

(***************************************************************************)
(* C5.  In unordered mode the slice [a:b] with a < b returns the stored    *)
(* entries with a < key < b (strict at both ends), in recording order.     *)
(***************************************************************************)
C5_UnorderedSliceStrict ==
    (Unordered /\ ret.op = "getslice" /\ ret.arg[1] # None /\ ret.arg[2] # None
               /\ ret.arg[1] < ret.arg[2]) =>
        /\ ret.out.kind = "return"
        /\ ret.out.val = SelectSeq(Zip(_index_labels, _data),
                                   LAMBDA p : ret.arg[1] < p[1] /\ p[1] < ret.arg[2])

(***************************************************************************)
(* C6.  As claimed: sample and view called on a container on which no      *)
(* record was made raise an error and never return a value.                *)
(***************************************************************************)
Fresh == Len(recorded) = 0

C7_RecordStoresCopy ==
    [][IsIndexed =>
          /\ heap' # heap =>
                 \A i \in 1..Len(_data) :
                     ValueIn(heap', _data'[i]) = ValueIn(heap, _data[i])
          /\ (ret'.op = "getitem" /\ ret'.out.kind = "return") =>
                 \E j \in 1..Len(recorded') :
                     /\ recorded'[j][1] = ret'.arg[1]
                     /\ recorded'[j][2] = ValueIn(heap', ret'.out.val)]_vars

\* A lookup returned a snapshot whose contents none of the caller's arrays
\* has any more.
C7_Witness ==
    /\ IsIndexed
    /\ ret.op = "getitem"
    /\ ret.out.kind = "return"
    /\ \A o \in Objs : heap[o] # Value(ret.out.val)

(***************************************************************************)
(* C8.  On a Cartesian2D that holds a recorded snapshot, sample(coords)    *)
(* returns the element of the snapshot at the matrix index the coordinate  *)
(* mapper gives for coords.                                                *)
(***************************************************************************)
\* The matrix index of coords lies within the array.
InShape(coords, arr) ==
    LET idx == Cartesian2D_coords2matrixidx(coords, arr)
    IN  /\ 0 <= idx[1] /\ idx[1] < Shape(arr)[1]
        /\ 0 <= idx[2] /\ idx[2] < Shape(arr)[2]

ElementAt(coords, arr) ==
    LET idx == Cartesian2D_coords2matrixidx(coords, arr)
    IN  arr[idx[1] + 1][idx[2] + 1]

C8_DataViewSampleReturnsElement ==
    (cls = "Cartesian2D" /\ ret.op = "sample" /\ _data.obj # None
                         /\ InShape(ret.arg, Value(_data))) =>
        ret.out = Return(ElementAt(ret.arg, Value(_data)))

(***************************************************************************)
(* C9.  On a Cartesian2Dx with N >= 1 stored snapshots, in both modes,     *)
(* sample(coords), for coords whose matrix index lies within every         *)
(* snapshot, returns a sequence of exactly N values, the i-th being the    *)
(* element of the i-th stored snapshot at the matrix index of coords.      *)
(***************************************************************************)
C9_SampleOnePerSnapshot ==
    (IsIndexed /\ ret.op = "sample" /\ Len(_data) >= 1
               /\ \A i \in 1..Len(_data) : InShape(ret.arg, Value(_data[i]))) =>
        /\ ret.out.kind = "return"
        /\ Len(ret.out.val) = Len(_data)
        /\ \A i \in 1..Len(_data) :
               ret.out.val[i] = ElementAt(ret.arg, Value(_data[i]))

\* sample returned different values for two stored snapshots of different
\* shapes.
C9_Witness ==
    /\ IsIndexed
    /\ ret.op = "sample"
    /\ ret.out.kind = "return"
    /\ Len(_data) >= 2
    /\ Shape(Value(_data[1])) # Shape(Value(_data[2]))
    /\ ret.out.val[1] # ret.out.val[2]

(***************************************************************************)
(* C10.  In both modes a point lookup of an index value that no stored     *)
(* entry has, on an empty container too, raises ValueError, returns no     *)
(* snapshot, and leaves _data and _index_labels as they were.              *)
(***************************************************************************)
C10_LookupOfMissingKey ==
    [][(IsIndexed /\ ret'.op = "getitem" /\ PositionsOf(ret'.arg[1]) = {}) =>
          /\ ret'.out = Raise("ValueError")
          /\ _data' = _data
          /\ _index_labels' = _index_labels]_vars

\* A lookup failed on a container that holds entries with other index values.
C10_Witness ==
    /\ IsIndexed
    /\ ret.op = "getitem"
    /\ ret.out.kind = "raise"
    /\ Len(_index_labels) >= 1

(***************************************************************************)
(* C11.  IndexedView.record is all or nothing, in both modes: a call that  *)
(* raises (data that cannot be copied, an index value that cannot be       *)
(* compared with the stored ones) leaves _data and _index_labels as they   *)
(* were, and a call that returns has put one new entry into both lists at  *)
(* the same position: the index value and a copy of data.                  *)
(***************************************************************************)
\* The sequence s without its element at position p.
Without(s, p) == SubSeq(s, 1, p - 1) \o SubSeq(s, p + 1, Len(s))

C11_RecordAllOrNothing ==
    [][(IsIndexed /\ ret'.op = "record") =>
          /\ ret'.out.kind = "raise" =>
                 /\ _data' = _data
                 /\ _index_labels' = _index_labels
          /\ (ret'.out.kind = "return" /\ Len(recorded') # Len(recorded)) =>
                 \E p \in 1..Len(_data') :
                     /\ Without(_data', p) = _data
                     /\ Without(_index_labels', p) = _index_labels
                     /\ _index_labels'[p] = ret'.arg[1]
                     /\ IsCopy(_data'[p])
                     /\ _data'[p].copy = recorded'[Len(recorded')][2]]_vars

\* A record call failed on a container that holds entries: its index value
\* could not be compared with the stored ones.
C11_Witness ==
    /\ IsIndexed
    /\ ret.op = "record"
    /\ ret.out = Raise("TypeError")
    /\ Len(_index_labels) >= 1

(***************************************************************************)
(* C12.  len(container) of an IndexedView is 0 on construction, is the     *)
(* number of record calls that returned so far, and never decreases,       *)
(* whatever operation is made: entries are added and never removed.        *)
(***************************************************************************)
C12_LenCountsRecords ==
    [][IsIndexed =>
          /\ ret.op = "__init__" => IndexedLen = Return(0)
          /\ IndexedLen = Return(Len(recorded))
          /\ IndexedLen' = Return(Len(recorded'))
          /\ IndexedLen'.val >= IndexedLen.val
          /\ ret'.op = "len" => ret'.out = Return(Len(recorded'))]_vars

\* len was called after two record calls that returned.
C12_Witness ==
    /\ IsIndexed
    /\ ret.op = "len"
    /\ ret.out.kind = "return"
    /\ ret.out.val >= 2

Reverse(s) == [i \in 1..Len(s) |-> s[Len(s) + 1 - i]]

WithKey(s, k) == SelectSeq(s, LAMBDA p : p[1] = k)

C14_EqualKeysInReverseOrder ==
    Ascending =>
        \A k \in Keys : WithKey(StoredPairs, k) = Reverse(WithKey(recorded, k))

\* A record call has put an entry in front of one with the same index value
\* and other contents.
C14_Witness ==
    /\ Ascending
    /\ ret.op = "record"
    /\ ret.out.kind = "return"
    /\ \E k \in Keys :
           /\ Len(WithKey(recorded, k)) >= 2
           /\ WithKey(recorded, k)[1] # WithKey(recorded, k)[2]

(***************************************************************************)
(* C15.  In unordered mode _index_labels and _data hold the recorded index *)
(* values and snapshots in recording order, and a point lookup returns the *)
(* snapshot of the first recorded entry with the index value looked up.    *)
(***************************************************************************)
C15_UnorderedKeepsRecordingOrder ==
    Unordered =>
        /\ StoredPairs = recorded
        /\ (ret.op = "getitem" /\ RecordsOf(ret.arg[1]) # {}) =>
               /\ ret.out.kind = "return"
               /\ ret.out.val = _data[Min(RecordsOf(ret.arg[1]))]
               /\ Value(ret.out.val) = recorded[Min(RecordsOf(ret.arg[1]))][2]

\* A lookup chose among two entries recorded with one index value and
\* different contents, the index values having been recorded in descending
\* order.
C15_Witness ==
    /\ Unordered
    /\ ret.op = "getitem"
    /\ ret.out.kind = "return"
    /\ \E j \in RecordsOf(ret.arg[1]) : recorded[j][2] # Value(ret.out.val)
    /\ \E i \in 1..(Len(recorded) - 1) : recorded[i][1] > recorded[i + 1][1]

(***************************************************************************)
(* C16.  view() on an IndexedView that holds entries returns the snapshot  *)
(* in the last stored position, with bounds: in ascending mode a snapshot  *)
(* recorded with the largest index value of all, whatever the order of the *)
(* record calls; in unordered mode the snapshot recorded last.             *)
(***************************************************************************)
C16_ViewReturnsLastStored ==
    (IsIndexed /\ ret.op = "view" /\ Len(_data) >= 1) =>
        /\ ret.out = Return(<<_data[Len(_data)], bounds>>)
        /\ Ascending =>
               \E j \in 1..Len(recorded) :
                   /\ \A i \in 1..Len(recorded) : recorded[i][1] <= recorded[j][1]
                   /\ recorded[j][2] = Value(ret.out.val[1])
                   /\ recorded[j][1] = _index_labels[Len(_index_labels)]
        /\ Unordered =>
               Value(ret.out.val[1]) = recorded[Len(recorded)][2]

\* In ascending mode view returned a snapshot with other contents than the
\* one recorded last, which has a smaller index value.
C16_Witness ==
    /\ Ascending
    /\ ret.op = "view"
    /\ ret.out.kind = "return"
    /\ recorded[Len(recorded)][1] < _index_labels[Len(_index_labels)]
    /\ recorded[Len(recorded)][2] # Value(ret.out.val[1])

(***************************************************************************)
(* C17.  Reversed slice bounds: for a < b an unordered container returns   *)
(* for container[a:b] and for container[b:a] the same result, while an     *)
(* ascending container does not reorder them and returns for               *)
(* container[b:a] a mapping with no entries.                               *)
(***************************************************************************)
C17_ReversedBoundsTolerated ==
    (/\ IsIndexed
     /\ ret.op = "getslice"
     /\ ret.arg[1] # None
     /\ ret.arg[2] # None
     /\ ret.arg[1] # ret.arg[2]) =>
        /\ Unordered =>
               /\ ret.out.kind = "return"
               /\ ret.out = GetSlice(ret.arg[2], ret.arg[1], ret.arg[3])
        /\ (Ascending /\ ret.arg[1] > ret.arg[2]) =>
               ret.out = Return(MapType(<<>>))

(***************************************************************************)
(* C18.  The operations that read (point lookup, slice, sample, view and   *)
(* len) leave _data and _index_labels as they were, whether they return or *)
(* raise: a step that changes either is a record call that returned.       *)
(***************************************************************************)
ReadOps == {"getitem", "getslice", "sample", "view", "len"}

C18_ReadsLeaveStoreUnchanged ==
    [][/\ ret'.op \in ReadOps => (_data' = _data /\ _index_labels' = _index_labels)
       /\ (_data' # _data \/ _index_labels' # _index_labels) =>
              (ret'.op = "record" /\ ret'.out.kind = "return")]_vars

\* A slice raised on a container that holds two entries.
C18_Witness ==
    /\ IsIndexed
    /\ ret.op = "getslice"
    /\ ret.out.kind = "raise"
    /\ Len(_data) >= 2
    /\ Len(_index_labels) = Len(_data)

(***************************************************************************)
(* C19.  After record calls with pairwise distinct index values the        *)
(* outcome of a point lookup is one function of the recorded sequence and  *)
(* the index value, the same for an ascending and an unordered container:  *)
(* the one snapshot recorded with it, or ValueError.  With an index value  *)
(* recorded more than once the modes differ: the ascending container       *)
(* returns the snapshot recorded last with it, the unordered one the first.*)
(***************************************************************************)
KeysDistinct ==
    \A i, j \in 1..Len(recorded) : i # j => recorded[i][1] # recorded[j][1]

C19_ModesAgreeOnDistinctKeys ==
    (IsIndexed /\ ret.op = "getitem") =>
        LET R == RecordsOf(ret.arg[1])
        IN  /\ KeysDistinct =>
                   ret.out = IF R = {}
                             THEN Raise("ValueError")
                             ELSE Return([copy |-> recorded[CHOOSE j \in R : TRUE][2]])
            /\ Cardinality(R) > 1 =>
                   ret.out = Return([copy |-> recorded[IF indexed_ascending
                                                       THEN Max(R)
                                                       ELSE Min(R)][2]])

\* A lookup returned after two record calls with distinct index values in
\* descending order, for which the two modes store the entries in different
\* orders.
C19_Witness ==
    /\ IsIndexed
    /\ ret.op = "getitem"
    /\ ret.out.kind = "return"
    /\ KeysDistinct
    /\ Len(recorded) >= 2
    /\ recorded[1][1] > recorded[2][1]

====
